---- MODULE Spec2Model ----
(***************************************************************************)
(* A model of CombineLRSchedulers (src/schedulers/combine_scheduler.py)    *)
(* and of WarmUpScheduler (src/schedulers/warmup_scheduler.py).            *)
(*                                                                         *)
(* Python's None is the empty tuple <<>>, a supplied value v is <<v>>.     *)
(* List indices are 0-based as in the source; At(list, i) reads list[i].   *)
(* A float that the code computes by one division of two integers is the   *)
(* pair <<numerator, denominator>>; comparisons cross-multiply.            *)
(***************************************************************************)
EXTENDS Integers, Sequences, FiniteSets, TLC

VARIABLES
    obj,      \* "none" before construction, "ok" once __init__ returned, "failed" if it raised
    cls,      \* the class that was instantiated
    args,     \* the constructor arguments the ramp's lr_lambda closes over
    self,     \* the instance's __dict__
    err,      \* the exception the last call raised, "none" if it returned
    blob,     \* <<>> or <<d>>: the dict the caller kept from state_dict()
    snap,     \* history: the four counters of the instance when blob was exported
    calls,    \* history: number of step() calls since construction
    loaded,   \* history: load_state_dict() has been called
    twin,     \* history: an instance built from the same lists and given the same
              \* number of step() calls, each without an explicit step
    last      \* history: the last call, and what step() saw between its sub-steps

vars == <<obj, cls, args, self, err, blob, snap, calls, loaded, twin, last>>

-----------------------------------------------------------------------------
(* Bounds of the model. *)

MaxN == 3            \* most schedulers handed to CombineLRSchedulers
MaxBoundary == 2     \* largest entry of lr_schedulers_steps
MaxBase == 2         \* base_lrs of after_warmup_scheduler is in 1..MaxBase
MaxWarmup == 2       \* largest warmup_steps
MaxDenominator == 3  \* largest warmup_denominator
MaxConstant == 1     \* largest add_constant_steps
MaxExplicit == 4     \* largest explicit step index passed to step()
ExtraSteps == 2      \* step() calls modelled beyond the last boundary

-----------------------------------------------------------------------------
(* Python values. *)

None == <<>>
Some(v) == <<v>>
IsNone(o) == o = <<>>
Val(o) == o[1]

\* list[i] with a 0-based index i >= 0; InRange is the condition under which it
\* does not raise IndexError.
InRange(list, i) == i >= 0 /\ i < Len(list)
At(list, i) == list[i + 1]

RECURSIVE SeqSum(_)
SeqSum(list) == IF list = <<>> THEN 0 ELSE Head(list) + SeqSum(Tail(list))

\* list[:n] for n >= 0
Slice(list, n) == SubSeq(list, 1, IF n < Len(list) THEN n ELSE Len(list))

\* Sequences of length n over S
SeqsOf(S, n) == [1..n -> S]

\* Python truthiness of an optional integer: None and 0 are falsy.
Truthy(o) == ~IsNone(o) /\ Val(o) # 0

-----------------------------------------------------------------------------
(* The schedulers CombineLRSchedulers holds. kind "LambdaLR:ramp" and       *)
(* "LambdaLR:one" are the two LambdaLR objects WarmUpScheduler builds,      *)
(* "_LRScheduler" is any scheduler the caller supplies and "object" is a    *)
(* value that is no _LRScheduler.  mult is the value lr_lambda returned on *)
(* the scheduler's last step, None for a scheduler with no lr_lambda;       *)
(* stepped counts the step calls the scheduler has received from the       *)
(* instance that holds it.                                                 *)

IsLRScheduler(x) == x.kind # "object"

Scheduler(kind, base, epoch, mult) ==
    [kind |-> kind, base_lrs |-> base, last_epoch |-> epoch, mult |-> mult,
     stepped |-> 0]

\* max(1.0, warmup_denominator or warmup_steps)
RampDenominator(a) ==
    LET d == IF Truthy(a.warmup_denominator) THEN Val(a.warmup_denominator)
             ELSE a.warmup_steps
    IN IF d > 1 THEN d ELSE 1

\* Variant: the ramp counts from 1, (step + 1) / max(...).
RampLambda_FromOne(a, step) == <<step + 1, RampDenominator(a)>>

\* Variant: the ramp is capped, min(1.0, step / max(...)).
RampLambda_Capped(a, step) ==
    <<IF step < RampDenominator(a) THEN step ELSE RampDenominator(a), RampDenominator(a)>>

\* lambda step: step / max(1.0, warmup_denominator or warmup_steps)
RampLambda(a, step) == <<step, RampDenominator(a)>>

\* lambda step: 1.0
OneLambda(step) == <<1, 1>>

LrLambda(x, a, step) ==
    IF x.kind = "LambdaLR:ramp" THEN Some(RampLambda(a, step))
    ELSE IF x.kind = "LambdaLR:one" THEN Some(OneLambda(step))
    ELSE None

\* scheduler.step(step): torch's _LRScheduler.step sets last_epoch to the given
\* step, or advances it by one when none is given, then recomputes the rate
\* from lr_lambda(last_epoch); base_lrs is not touched.
SchedulerStep(x, a, step) ==
    LET e == IF IsNone(step) THEN x.last_epoch + 1 ELSE Val(step)
    IN [x EXCEPT !.last_epoch = e, !.mult = LrLambda(x, a, e), !.stepped = @ + 1]

-----------------------------------------------------------------------------
(* CombineLRSchedulers *)

NoArgs == [warmup_steps |-> 0, add_constant_steps |-> None, warmup_denominator |-> None,
           starts_with |-> None]

NoSelf ==
    [lr_schedulers |-> <<>>, _lr_schedulers_steps |-> <<>>, _last_step |-> 0,
     _reached_end |-> FALSE, _lr_scheduler_idx |-> 0, _current_num_steps |-> 0]

\* __init__, line 25
TypeCheck(lr_schedulers) ==
    \A i \in 1..Len(lr_schedulers) : IsLRScheduler(lr_schedulers[i])

\* Variant: only too many boundaries are refused.
LengthCheck_AtLeast(lr_schedulers, lr_schedulers_steps) ==
    Len(lr_schedulers) - Len(lr_schedulers_steps) >= 1

\* __init__, line 29
LengthCheck(lr_schedulers, lr_schedulers_steps) ==
    Len(lr_schedulers) - Len(lr_schedulers_steps) = 1

\* __init__: the exception it raises, "none" if it returns
CombineInitError(lr_schedulers, lr_schedulers_steps) ==
    IF ~TypeCheck(lr_schedulers) THEN "TypeError"
    ELSE IF ~LengthCheck(lr_schedulers, lr_schedulers_steps) THEN "ValueError"
    ELSE "none"

\* __init__, lines 34-39
CombineInit(lr_schedulers, lr_schedulers_steps) ==
    [lr_schedulers |-> lr_schedulers,
     _lr_schedulers_steps |-> lr_schedulers_steps,
     _last_step |-> 0,
     _reached_end |-> FALSE,
     _lr_scheduler_idx |-> 0,
     _current_num_steps |-> 0]

\* current_lr_scheduler
CurrentLRScheduler(s) == At(s.lr_schedulers, s._lr_scheduler_idx)

\* Variant: the handoff is made on the call that reaches the boundary.
HandoffDue_AtBoundary(s) ==
    s._last_step >= SeqSum(Slice(s._lr_schedulers_steps, s._current_num_steps + 1))

\* _update_if_needed, line 77
HandoffDue(s) ==
    s._last_step > SeqSum(Slice(s._lr_schedulers_steps, s._current_num_steps + 1))

\* Variant: line 83 runs before the index is advanced, so it writes the
\* scheduler that was current.
SetBaseLrs_Previous(s, previous_base_lrs) ==
    [s EXCEPT !.lr_schedulers[s._lr_scheduler_idx].base_lrs = previous_base_lrs]

\* _update_if_needed, line 83, given the value read at line 80
SetBaseLrs(s, previous_base_lrs) ==
    [s EXCEPT !.lr_schedulers[s._lr_scheduler_idx + 1].base_lrs = previous_base_lrs]

\* Variant: line 85 without the subtraction.
SetLastEpoch_NoOffset(s) ==
    [s EXCEPT !.lr_schedulers[s._lr_scheduler_idx + 1].last_epoch = s._last_step]

\* _update_if_needed, line 85
SetLastEpoch(s) ==
    [s EXCEPT !.lr_schedulers[s._lr_scheduler_idx + 1].last_epoch = s._last_step - 1]

\* _update_if_needed, lines 86-87
MarkEnd(s) ==
    IF s._lr_scheduler_idx = Len(s.lr_schedulers) - 1
    THEN [s EXCEPT !._reached_end = TRUE]
    ELSE s

\* _update_if_needed: the instance it leaves, the exception it raised, and
\* whether it completed a handoff.  Lines 80 and 83 index lr_schedulers and
\* raise IndexError out of range; the assignments of lines 81-82 made before
\* line 83 raises stay.
UpdateIfNeeded(s) ==
    IF HandoffDue(s)
    THEN IF ~InRange(s.lr_schedulers, s._lr_scheduler_idx)
         THEN [self |-> s, err |-> "IndexError", handoff |-> FALSE]
         ELSE LET previous_base_lrs == CurrentLRScheduler(s).base_lrs
                  s1 == [s EXCEPT !._lr_scheduler_idx = @ + 1,
                                  !._current_num_steps = @ + 1]
              IN IF ~InRange(s1.lr_schedulers, s1._lr_scheduler_idx)
                 THEN [self |-> s1, err |-> "IndexError", handoff |-> FALSE]
                 ELSE [self |-> MarkEnd(SetLastEpoch(SetBaseLrs(s1, previous_base_lrs))),
                       err |-> "none", handoff |-> TRUE]
    ELSE [self |-> MarkEnd(s), err |-> "none", handoff |-> FALSE]

\* Variant: _update_if_needed is repeated while a handoff is due.
BeforeForward_Repeat(s) ==
    LET s0 == [s EXCEPT !._last_step = @ + 1]
        r1 == UpdateIfNeeded(s0)
    IN IF s0._reached_end THEN [self |-> s0, err |-> "none", handoff |-> FALSE]
       ELSE IF r1.handoff /\ ~r1.self._reached_end THEN UpdateIfNeeded(r1.self)
       ELSE r1

\* Variant: line 71's test of _reached_end is missing.
BeforeForward_Unguarded(s) ==
    UpdateIfNeeded([s EXCEPT !._last_step = @ + 1])

\* step, lines 70-72: the state in which line 73 forwards the call
BeforeForward(s) ==
    LET s0 == [s EXCEPT !._last_step = @ + 1]
    IN IF ~s0._reached_end THEN UpdateIfNeeded(s0)
       ELSE [self |-> s0, err |-> "none", handoff |-> FALSE]

\* Variant: line 73 calls step() without the caller's argument.
Forward_DropsArg(s, a, step) ==
    IF ~InRange(s.lr_schedulers, s._lr_scheduler_idx)
    THEN [self |-> s, err |-> "IndexError"]
    ELSE [self |-> [s EXCEPT !.lr_schedulers[s._lr_scheduler_idx + 1] =
                                 SchedulerStep(@, a, None)],
          err |-> "none"]

\* Variant: an explicit step also becomes the instance's _last_step.
Forward_SetsLastStep(s, a, step) ==
    IF ~InRange(s.lr_schedulers, s._lr_scheduler_idx)
    THEN [self |-> s, err |-> "IndexError"]
    ELSE [self |-> [s EXCEPT !.lr_schedulers[s._lr_scheduler_idx + 1] =
                                 SchedulerStep(@, a, step),
                             !._last_step = IF IsNone(step) THEN @ ELSE Val(step)],
          err |-> "none"]

\* step, line 73
Forward(s, a, step) ==
    IF ~InRange(s.lr_schedulers, s._lr_scheduler_idx)
    THEN [self |-> s, err |-> "IndexError"]
    ELSE [self |-> [s EXCEPT !.lr_schedulers[s._lr_scheduler_idx + 1] =
                                 SchedulerStep(@, a, step)],
          err |-> "none"]

\* step(step): the instance the call leaves and the exception it raised
StepResult(s, a, step) ==
    LET u == BeforeForward(s)
        f == Forward(u.self, a, step)
    IN IF u.err = "none" THEN f ELSE [self |-> u.self, err |-> u.err]

\* Variant: no filter, the dict holds lr_schedulers too.
StateDict_All(s) == s

\* Variant: the filter drops every key that names a scheduler index or list.
StateDict_DropsIndex(s) ==
    [key \in DOMAIN s \ {"lr_schedulers", "_lr_scheduler_idx"} |-> s[key]]

\* state_dict: every entry of __dict__ whose key is not 'lr_schedulers'
StateDict(s) == [key \in DOMAIN s \ {"lr_schedulers"} |-> s[key]]

\* load_state_dict: __dict__.update(state_dict)
LoadStateDict(s, state_dict) ==
    [key \in DOMAIN s \cup DOMAIN state_dict |->
        IF key \in DOMAIN state_dict THEN state_dict[key] ELSE s[key]]

-----------------------------------------------------------------------------
(* WarmUpScheduler.__init__ *)

\* LambdaLR(optimizer, lr_lambda): base_lrs are the optimizer's initial rates;
\* the constructor takes the initial step, so last_epoch = 0 and the rate is
\* lr_lambda(0).
RampScheduler(a, optimizer) ==
    Scheduler("LambdaLR:ramp", optimizer, 0, Some(RampLambda(a, 0)))

ConstantScheduler(optimizer) ==
    Scheduler("LambdaLR:one", optimizer, 0, Some(OneLambda(0)))

\* Variant: only a negative add_constant_steps is refused.
ConstantStepsCheck_Negative(a) ==
    ~(~IsNone(a.add_constant_steps) /\ Val(a.add_constant_steps) < 0)

\* lines 42-43
ConstantStepsCheck(a) ==
    ~(~IsNone(a.add_constant_steps) /\ Val(a.add_constant_steps) <= 0)

\* Variant: only a negative starts_with is refused.
StartsWithCheck_Negative(a) ==
    ~(~IsNone(a.starts_with) /\ Val(a.starts_with) < 0)

\* The validation of starts_with.  The __init__ of warmup_scheduler.py takes no
\* starts_with; this is the check its documentation gives for the constructor
\* that does: a supplied starts_with <= 0 is refused.
StartsWithCheck(a) ==
    ~(~IsNone(a.starts_with) /\ Val(a.starts_with) <= 0)

\* lines 44-62: lr_schedulers
WarmUpSchedulers(a, optimizer, after_warmup_scheduler) ==
    IF Truthy(a.add_constant_steps)
    THEN <<RampScheduler(a, optimizer), ConstantScheduler(optimizer), after_warmup_scheduler>>
    ELSE <<RampScheduler(a, optimizer), after_warmup_scheduler>>

\* Variant: the constant stage's steps are left out.
WarmUpSteps_NoConstant(a) == <<a.warmup_steps>>

\* lines 44-62: lr_schedulers_steps
WarmUpSteps(a) ==
    IF Truthy(a.add_constant_steps)
    THEN <<a.warmup_steps, Val(a.add_constant_steps)>>
    ELSE <<a.warmup_steps>>

-----------------------------------------------------------------------------
(* Inputs *)

BaseVals == 1..MaxBase
Kinds == {"_LRScheduler", "object"}

\* What a caller passes as a scheduler: a scheduler torch constructed
\* (last_epoch = 0) with base_lrs b, or some other object.
Supplied(k, b) == Scheduler(k, b, 0, None)

\* The lists handed to CombineLRSchedulers: n values, the i-th with its own
\* base_lrs, i.
SuppliedLists(n) ==
    {[i \in 1..n |-> Supplied(ks[i], i)] : ks \in SeqsOf(Kinds, n)}

\* The schedulers handed to WarmUpScheduler as after_warmup_scheduler.  The
\* optimizer's initial rate is 1; the scheduler wraps that optimizer or another.
AfterSchedulers == {Supplied(k, b) : k \in Kinds, b \in BaseVals}

StepArgs == {None, Some(MaxExplicit)}

Optional(S) == {None} \cup {Some(v) : v \in S}

\* warmup_steps: the small values, and the 10 of the documented example.
\* starts_with: absent, or one of the values its validation refuses; the ramp
\* modelled here is the one of warmup_scheduler.py, which has no starts_with.
WarmupSteps == (1..MaxWarmup) \cup {10}

WarmUpArgs ==
    [warmup_steps : WarmupSteps,
     add_constant_steps : Optional((-1)..MaxConstant),
     warmup_denominator : Optional(0..MaxDenominator),
     starts_with : Optional((-1)..0)]

\* the four counters of an instance
Counters(s) ==
    <<s._last_step, s._lr_scheduler_idx, s._current_num_steps, s._reached_end>>

\* last: op is the call; when it reached CombineLRSchedulers.__init__ (combine),
\* n and m are the lengths of the lists that constructor was given and valid
\* tells whether every scheduler it was given is one; for a step() call, step
\* is its argument, idx and base_lrs are the index and the base_lrs of the
\* scheduler that was current when the call began, mid is the instance when
\* lines 70-72 were done and handoff tells whether they made a handoff.
NoCall == [op |-> "none", combine |-> FALSE, n |-> 0, m |-> 0, valid |-> FALSE,
           step |-> None, idx |-> 0, base_lrs |-> 0, mid |-> NoSelf, handoff |-> FALSE]

-----------------------------------------------------------------------------
(* The state machine *)

Init ==
    /\ obj = "none"
    /\ cls = "none"
    /\ args = NoArgs
    /\ self = NoSelf
    /\ err = "none"
    /\ blob = None
    /\ snap = Counters(NoSelf)
    /\ calls = 0
    /\ loaded = FALSE
    /\ twin = NoSelf
    /\ last = NoCall

Construct(c, a, lr_schedulers, lr_schedulers_steps, e) ==
    /\ obj = "none"
    /\ cls' = c
    /\ args' = a
    /\ err' = e
    /\ obj' = IF e = "none" THEN "ok" ELSE "failed"
    /\ self' = IF e = "none" THEN CombineInit(lr_schedulers, lr_schedulers_steps)
               ELSE NoSelf
    /\ twin' = self'
    /\ last' = [NoCall EXCEPT !.op = "new", !.combine = TRUE,
                              !.n = Len(lr_schedulers),
                              !.m = Len(lr_schedulers_steps),
                              !.valid = \A i \in 1..Len(lr_schedulers) :
                                            lr_schedulers[i].kind # "object"]
    /\ UNCHANGED <<blob, snap, calls, loaded>>

\* a constructor that raises e before it reaches CombineLRSchedulers.__init__
Rejected(c, a, e) ==
    /\ obj = "none"
    /\ cls' = c
    /\ args' = a
    /\ err' = e
    /\ obj' = "failed"
    /\ self' = NoSelf
    /\ twin' = NoSelf
    /\ last' = [NoCall EXCEPT !.op = "new"]
    /\ UNCHANGED <<blob, snap, calls, loaded>>

\* CombineLRSchedulers(lr_schedulers, lr_schedulers_steps)
NewCombine ==
    \E n \in 1..MaxN, m \in 0..MaxN :
      \E lr_schedulers \in SuppliedLists(n),
         lr_schedulers_steps \in SeqsOf(0..MaxBoundary, m) :
        Construct("CombineLRSchedulers", NoArgs, lr_schedulers, lr_schedulers_steps,
                  CombineInitError(lr_schedulers, lr_schedulers_steps))

\* WarmUpScheduler(optimizer, warmup_steps, after_warmup_scheduler,
\*                 add_constant_steps, warmup_denominator)
NewWarmUp ==
    \E a \in WarmUpArgs, optimizer \in {1}, after_warmup_scheduler \in AfterSchedulers :
        IF ~ConstantStepsCheck(a) \/ ~StartsWithCheck(a)
        THEN Rejected("WarmUpScheduler", a, "ValueError")
        ELSE Construct("WarmUpScheduler", a,
                       WarmUpSchedulers(a, optimizer, after_warmup_scheduler),
                       WarmUpSteps(a),
                       CombineInitError(WarmUpSchedulers(a, optimizer, after_warmup_scheduler),
                                        WarmUpSteps(a)))

\* step(step)
StepWith(step) ==
        /\ obj = "ok"
        /\ self._last_step < SeqSum(self._lr_schedulers_steps) + ExtraSteps
        /\ LET u == BeforeForward(self)
               r == StepResult(self, args, step)
           IN /\ self' = r.self
              /\ err' = r.err
              /\ last' = [NoCall EXCEPT
                            !.op = "step",
                            !.step = step,
                            !.idx = self._lr_scheduler_idx,
                            !.base_lrs = IF InRange(self.lr_schedulers, self._lr_scheduler_idx)
                                         THEN CurrentLRScheduler(self).base_lrs ELSE 0,
                            !.mid = u.self,
                            !.handoff = u.handoff]
        /\ twin' = StepResult(twin, args, None).self
        /\ calls' = calls + 1
        /\ UNCHANGED <<obj, cls, args, blob, snap, loaded>>

\* blob = state_dict()
Export ==
    /\ obj = "ok"
    /\ ~loaded
    /\ blob' = Some(StateDict(self))
    /\ snap' = Counters(self)
    /\ err' = "none"
    /\ last' = [NoCall EXCEPT !.op = "state_dict"]
    /\ UNCHANGED <<obj, cls, args, self, calls, loaded, twin>>

\* load_state_dict(blob)
Import ==
    /\ obj = "ok"
    /\ ~IsNone(blob)
    /\ ~loaded
    /\ self' = LoadStateDict(self, Val(blob))
    /\ loaded' = TRUE
    /\ err' = "none"
    /\ last' = [NoCall EXCEPT !.op = "load_state_dict"]
    /\ UNCHANGED <<obj, cls, args, blob, snap, calls, twin>>

\* step() or step(step)
Step == \E step \in StepArgs : StepWith(step)

\* step()
StepNoArg == StepWith(None)

\* A training run: construction, then step() calls.
Next ==
    \/ NewCombine
    \/ NewWarmUp
    \/ Step

Spec == Init /\ [][Next]_vars

\* A training run with checkpoints: the caller also exports the state and then
\* loads an exported state back, once.  state_dict and load_state_dict are those of
\* CombineLRSchedulers, which WarmUpScheduler inherits unchanged, and they
\* carry none of the schedulers' own state.
NextCheckpoint ==
    \/ NewCombine
    \/ StepNoArg
    \/ Export
    \/ Import

SpecCheckpoint == Init /\ [][NextCheckpoint]_vars

-----------------------------------------------------------------------------
(* Properties *)

N == Len(self.lr_schedulers)
Constructed == obj = "ok"
IsWarmUp == Constructed /\ cls = "WarmUpScheduler"

\* C1: with two schedulers [A, B] and one boundary [k], k >= 1, the current
\* scheduler is A and _reached_end is false after each of the first k step()
\* calls, and from the (k+1)-th call on the current scheduler is B and
\* _reached_end is true.
C1_SwitchAfterKCalls ==
    (Constructed /\ N = 2 /\ self._lr_schedulers_steps[1] >= 1) =>
        LET k == self._lr_schedulers_steps[1]
        IN /\ calls <= k => (self._lr_scheduler_idx = 0 /\ ~self._reached_end)
           /\ calls >= k + 1 => (self._lr_scheduler_idx = 1 /\ self._reached_end)
           /\ last.op = "step" => (last.handoff <=> calls = k + 1)

C1_Witness ==
    /\ Constructed /\ N = 2 /\ self._lr_schedulers_steps[1] = 2
    /\ calls = 4 /\ self._lr_scheduler_idx = 1 /\ self._reached_end

\* C2: with N schedulers and N-1 boundaries, _current_num_steps (the handoffs
\* made so far) and _lr_scheduler_idx never exceed N-1, N = 1 included.
C2_IndexWithinSchedulers ==
    Constructed =>
        /\ self._current_num_steps <= N - 1
        /\ self._lr_scheduler_idx <= N - 1

\* C3: once construction succeeded, no step() call raises.
C3_StepNeverRaises ==
    (Constructed /\ last.op = "step") => err = "none"

\* C4: a step() call that makes a handoff while _last_step, already
\* incremented, is g leaves the new current scheduler's last_epoch at g - 1
\* when the call is about to be forwarded.
C4_HandoffLastEpoch ==
    (last.op = "step" /\ last.handoff) =>
        /\ last.mid._last_step = calls
        /\ CurrentLRScheduler(last.mid).last_epoch = calls - 1

C4_Witness ==
    /\ last.op = "step" /\ last.handoff /\ calls = 3
    /\ CurrentLRScheduler(last.mid).last_epoch = 2

\* C5: a step() call that makes a handoff from scheduler i to scheduler i+1
\* leaves in scheduler i+1 the base_lrs scheduler i held when the call began,
\* and leaves scheduler i's base_lrs as they were.
C5_BaseLrsPropagated ==
    (last.op = "step" /\ last.handoff) =>
        /\ last.mid._lr_scheduler_idx = last.idx + 1
        /\ At(last.mid.lr_schedulers, last.idx + 1).base_lrs = last.base_lrs
        /\ At(last.mid.lr_schedulers, last.idx).base_lrs = last.base_lrs
        /\ At(self.lr_schedulers, last.idx + 1).base_lrs = last.base_lrs
        /\ At(self.lr_schedulers, last.idx).base_lrs = last.base_lrs

C5_Witness ==
    /\ last.op = "step" /\ last.handoff /\ N = 3 /\ last.idx = 1
    /\ cls = "CombineLRSchedulers"
    /\ At(self.lr_schedulers, 2).base_lrs = 1

\* C6: load_state_dict of the dict state_dict returned earlier restores
\* _last_step, _lr_scheduler_idx, _current_num_steps and _reached_end to the
\* values they had at the export, whatever step() calls came in between.
C6_RoundTrip ==
    last.op = "load_state_dict" => Counters(self) = snap

\* The export was made before the handoff, the second scheduler has been
\* stepped since, and the load put the instance back on the first one.
C6_Witness ==
    /\ last.op = "load_state_dict" /\ N = 2
    /\ snap = <<1, 0, 0, FALSE>>
    /\ At(self.lr_schedulers, 1).last_epoch > 1
    /\ self._lr_scheduler_idx = 0 /\ ~self._reached_end /\ self._last_step = 1

\* C7: CombineLRSchedulers(lr_schedulers, lr_schedulers_steps) with n >= 1
\* schedulers and m boundaries raises and leaves no instance when m # n - 1;
\* with m = n - 1 and every scheduler an _LRScheduler it returns an instance
\* with _last_step = 0, _lr_scheduler_idx = 0 and _current_num_steps = 0.
C7_ConstructorLengthCheck ==
    (last.op = "new" /\ last.combine) =>
        /\ last.m # last.n - 1 =>
              /\ obj = "failed"
              /\ err \in {"TypeError", "ValueError"}
              /\ last.valid => err = "ValueError"
        /\ (last.m = last.n - 1 /\ last.valid) =>
              /\ obj = "ok"
              /\ err = "none"
              /\ Counters(self) = <<0, 0, 0, FALSE>>
              /\ Len(self.lr_schedulers) = last.n
              /\ Len(self._lr_schedulers_steps) = last.m

C7_Witness ==
    /\ last.op = "new" /\ last.combine /\ last.valid /\ last.n = 3 /\ last.m = 3
    /\ obj = "failed" /\ err = "ValueError"

Kind(i) == self.lr_schedulers[i].kind

\* C8: WarmUpScheduler assembles [ramp, after_warmup_scheduler] with
\* [warmup_steps] when add_constant_steps is not supplied, and [ramp, constant,
\* after_warmup_scheduler] with [warmup_steps, add_constant_steps] when
\* add_constant_steps > 0; the constructor's length check then passes.
C8_WarmUpAssembly ==
    /\ (last.op = "new" /\ cls = "WarmUpScheduler" /\ last.combine /\ last.valid)
       => (obj = "ok" /\ last.m = last.n - 1)
    /\ (last.op = "new" /\ cls = "WarmUpScheduler" /\ IsNone(args.starts_with)
          /\ (IsNone(args.add_constant_steps) \/ Val(args.add_constant_steps) > 0))
       => last.combine
    /\ (IsWarmUp /\ IsNone(args.add_constant_steps)) =>
          /\ N = 2
          /\ Kind(1) = "LambdaLR:ramp" /\ Kind(2) = "_LRScheduler"
          /\ self._lr_schedulers_steps = <<args.warmup_steps>>
    /\ (IsWarmUp /\ ~IsNone(args.add_constant_steps)) =>
          /\ Val(args.add_constant_steps) > 0
          /\ N = 3
          /\ Kind(1) = "LambdaLR:ramp" /\ Kind(2) = "LambdaLR:one"
          /\ Kind(3) = "_LRScheduler"
          /\ self._lr_schedulers_steps =
                 <<args.warmup_steps, Val(args.add_constant_steps)>>

C8_Witness ==
    /\ IsWarmUp /\ last.op = "new" /\ N = 3
    /\ self._lr_schedulers_steps = <<2, 1>>

\* The ramp scheduler of a WarmUpScheduler, its step count and its multiplier.
Ramp == self.lr_schedulers[1]
RampNum == Val(Ramp.mult)[1]
RampDen == Val(Ramp.mult)[2]

\* C9: with neither warmup_denominator nor add_constant_steps, the ramp's
\* multiplier at its step count s, 0 <= s <= warmup_steps, is s / warmup_steps,
\* so it is 1 at s = warmup_steps.
C9_RampIsStepOverWarmup ==
    (IsWarmUp /\ IsNone(args.warmup_denominator) /\ IsNone(args.add_constant_steps)
       /\ Ramp.last_epoch >= 0 /\ Ramp.last_epoch <= args.warmup_steps) =>
        /\ RampNum * args.warmup_steps = Ramp.last_epoch * RampDen
        /\ Ramp.last_epoch = args.warmup_steps => RampNum = RampDen

\* warmup_steps = 10: the multiplier is 0.5 at step count 5 ...
C9_Witness ==
    /\ IsWarmUp /\ IsNone(args.warmup_denominator) /\ IsNone(args.add_constant_steps)
    /\ args.warmup_steps = 10 /\ Ramp.last_epoch = 5 /\ calls = 5
    /\ RampNum * 2 = RampDen

\* ... and 1.0 at step count 10.
C9_WitnessEnd ==
    /\ IsWarmUp /\ IsNone(args.warmup_denominator) /\ IsNone(args.add_constant_steps)
    /\ args.warmup_steps = 10 /\ Ramp.last_epoch = 10 /\ calls = 10
    /\ RampNum = RampDen

\* C10, as stated: for every warmup_steps >= 1, with or without a
\* warmup_denominator, and every step count s >= 0, the ramp's multiplier never
\* exceeds 1 and is 1 at s = warmup_steps.
C10_RampCapped ==
    (IsWarmUp /\ Ramp.last_epoch >= 0) =>
        /\ RampNum <= RampDen
        /\ Ramp.last_epoch = args.warmup_steps => RampNum = RampDen

\* The denominator the ramp divides by, from the constructor's arguments.
C10_Divisor ==
    LET d == IF ~IsNone(args.warmup_denominator) /\ Val(args.warmup_denominator) # 0
             THEN Val(args.warmup_denominator) ELSE args.warmup_steps
    IN IF d < 1 THEN 1 ELSE d

\* C10, amended: the multiplier is s / D with D = max(1, warmup_denominator or
\* warmup_steps) and no cap: it does not exceed 1 while s <= D, it exceeds 1
\* when s > D, and at s = warmup_steps it is 1 exactly when D = warmup_steps.
C10_RampUncapped ==
    (IsWarmUp /\ Ramp.last_epoch >= 0) =>
        /\ RampNum * C10_Divisor = Ramp.last_epoch * RampDen
        /\ Ramp.last_epoch <= C10_Divisor <=> RampNum <= RampDen
        /\ Ramp.last_epoch = args.warmup_steps =>
              (RampNum = RampDen <=> C10_Divisor = args.warmup_steps)

\* warmup_steps = 2 with warmup_denominator = 1: the multiplier is 2 at s = 2.
C10_Witness ==
    /\ IsWarmUp /\ args.warmup_steps = 2 /\ args.warmup_denominator = Some(1)
    /\ Ramp.last_epoch = 2 /\ calls = 2
    /\ RampNum = 2 * RampDen

C13_StartsWithRefused ==
    (last.op = "new" /\ cls = "WarmUpScheduler"
       /\ ~IsNone(args.starts_with) /\ Val(args.starts_with) <= 0) =>
        /\ obj = "failed" /\ err = "ValueError"
        /\ ~last.combine /\ self = NoSelf

C13_Witness ==
    /\ last.op = "new" /\ cls = "WarmUpScheduler"
    /\ args.starts_with = Some(0) /\ IsNone(args.add_constant_steps)
    /\ obj = "failed" /\ err = "ValueError"

\* The keys of __dict__ other than 'lr_schedulers'.
C12_OwnFields ==
    {"_lr_schedulers_steps", "_last_step", "_reached_end", "_lr_scheduler_idx",
     "_current_num_steps"}

\* C12: state_dict() returns every attribute of the instance but lr_schedulers,
\* each with its current value, and changes nothing in the instance;
\* load_state_dict() leaves lr_schedulers, and so every scheduler's base_lrs
\* and last_epoch, as they were.
C12_ExportImportFrame ==
    [][/\ last'.op = "state_dict" =>
            /\ self' = self
            /\ DOMAIN Val(blob') = C12_OwnFields
            /\ \A key \in C12_OwnFields : Val(blob')[key] = self[key]
       /\ last'.op = "load_state_dict" =>
            /\ DOMAIN self' = DOMAIN self
            /\ self'.lr_schedulers = self.lr_schedulers]_vars

\* A load that moved the instance back from the third scheduler to the first,
\* with the later schedulers keeping the steps they had received.
C12_Witness ==
    /\ last.op = "load_state_dict" /\ N = 3
    /\ self._lr_scheduler_idx = 0 /\ self._last_step = 0
    /\ At(self.lr_schedulers, 1).stepped > 0
    /\ At(self.lr_schedulers, 2).stepped > 0
    /\ At(self.lr_schedulers, 2).last_epoch > 0

\* C14: one step() call makes at most one handoff: _lr_scheduler_idx and
\* _current_num_steps each grow by 0 or 1, and by the same amount, also when
\* _last_step is already past several cumulative boundaries.
C14_OneHandoffPerCall ==
    [][last'.op = "step" =>
         /\ self'._lr_scheduler_idx - self._lr_scheduler_idx \in {0, 1}
         /\ self'._current_num_steps - self._current_num_steps \in {0, 1}
         /\ self'._lr_scheduler_idx - self._lr_scheduler_idx
              = self'._current_num_steps - self._current_num_steps]_vars

\* Boundaries [0, 0]: the first call is past both cumulative boundaries and
\* moves to the second scheduler only.
C14_Witness ==
    /\ Constructed /\ N = 3 /\ self._lr_schedulers_steps = <<0, 0>>
    /\ last.op = "step" /\ calls = 1
    /\ self._lr_scheduler_idx = 1 /\ self._current_num_steps = 1

\* C15: over step() calls _lr_scheduler_idx never decreases, and once
\* _reached_end is true it stays true and no step() call changes
\* _lr_scheduler_idx or _current_num_steps.
C15_MonotoneAndFinal ==
    [][Constructed =>
         /\ self'._lr_scheduler_idx >= self._lr_scheduler_idx
         /\ self._reached_end =>
              /\ self'._reached_end
              /\ self'._lr_scheduler_idx = self._lr_scheduler_idx
              /\ self'._current_num_steps = self._current_num_steps]_vars

\* Two calls made after the last handoff.
C15_Witness ==
    /\ Constructed /\ N = 3 /\ last.op = "step" /\ self._reached_end
    /\ self._lr_scheduler_idx = 2
    /\ calls = SeqSum(self._lr_schedulers_steps) + 2

\* C16: after construction and any number of completed step() calls,
\* _reached_end is true exactly when _lr_scheduler_idx = N - 1, for N = 1 too.
C16_EndIffLastIndex ==
    (Constructed /\ err = "none") =>
        (self._reached_end <=> self._lr_scheduler_idx = N - 1)

C18_Prefix(j) == SeqSum(Slice(self._lr_schedulers_steps, j))

\* C18: with N >= 2 schedulers and boundaries that are all positive, call
\* number c is forwarded to scheduler i exactly when c lies in
\* prefix(i)+1 .. prefix(i)+b_i, and to the last scheduler when c is past
\* every boundary: after c calls each scheduler has been stepped its share.
C18_CallWindows ==
    (/\ Constructed /\ N >= 2
     /\ \A k \in 1..(N - 1) : self._lr_schedulers_steps[k] >= 1) =>
        /\ err = "none"
        /\ \A i \in 1..N :
               self.lr_schedulers[i].stepped =
                   IF i = N
                   THEN (IF calls > C18_Prefix(N - 1) THEN calls - C18_Prefix(N - 1) ELSE 0)
                   ELSE IF calls <= C18_Prefix(i - 1) THEN 0
                   ELSE IF calls - C18_Prefix(i - 1) > self._lr_schedulers_steps[i]
                        THEN self._lr_schedulers_steps[i]
                        ELSE calls - C18_Prefix(i - 1)

\* Boundaries [1, 2] and five calls: one, two and two calls per scheduler.
C18_Witness ==
    /\ Constructed /\ N = 3 /\ self._lr_schedulers_steps = <<1, 2>>
    /\ calls = 5
    /\ At(self.lr_schedulers, 0).stepped = 1
    /\ At(self.lr_schedulers, 1).stepped = 2
    /\ At(self.lr_schedulers, 2).stepped = 2

\* C19: when the schedulers start at last_epoch 0 and every call is step()
\* without an argument, after each completed call the current scheduler's
\* last_epoch equals _last_step (no state has been loaded in between).
C19_EpochInSync ==
    (Constructed /\ last.op = "step" /\ err = "none" /\ ~loaded) =>
        CurrentLRScheduler(self).last_epoch = self._last_step

\* The call that made the second handoff.
C19_Witness ==
    /\ Constructed /\ N = 3 /\ last.op = "step" /\ last.handoff /\ ~loaded
    /\ err = "none"
    /\ self._lr_scheduler_idx = 2
    /\ self._last_step >= 3
    /\ CurrentLRScheduler(self).last_epoch = self._last_step

\* C20: the counters do not depend on the explicit step arguments: they
\* equal those of an instance that received the same number of step() calls
\* without argument, and _last_step is the number of calls.
C20_CountersIgnoreExplicitStep ==
    Constructed =>
        /\ Counters(self) = Counters(twin)
        /\ self._last_step = calls

\* An explicit step other than the call count: the schedulers differ from the
\* twin's, the counters do not.
C20_Witness ==
    /\ Constructed /\ N = 3 /\ err = "none"
    /\ last.op = "step" /\ last.step = Some(MaxExplicit)
    /\ calls = 3 /\ calls # MaxExplicit
    /\ self._last_step = 3
    /\ self.lr_schedulers # twin.lr_schedulers
    /\ Counters(self) = Counters(twin)

====
